---- MODULE Spec2Model ----
(***************************************************************************)
(* Model of class_generator (src/class_generator/src/gen_class.py).        *)
(*                                                                         *)
(* A Python str is a sequence of atoms.  An atom is a short string: a      *)
(* single character (":", "=", ",", " ", "_", "a", "B", ...), an opaque    *)
(* word that contains no separator ("int", "return", "None"), a literal    *)
(* chunk of a template, or a placeholder of a template ("{class_name}").   *)
(* str.split, str.strip, str.join, str.replace and str.capitalize are      *)
(* computed on these sequences the way Python computes them on characters. *)
(* An optional value (None or a str) is <<>> for None and <<s>> for s.     *)
(***************************************************************************)
EXTENDS Integers, Sequences, FiniteSets, TLC

VARIABLES
    self,    \* the fields of the GenClass instance under construction
    fs,      \* the output tree: path -> content of the files that exist
    raised,  \* whether the last GenClass(...) raised
    pc,      \* where the driver, or the caller of one method, stands
    arg,     \* the argument of the method called on its own
    out,     \* what that method returned
    runs     \* how many times GenClass(...) was called

vars == <<self, fs, raised, pc, arg, out, runs>>

(* ------------------------------ bounds -------------------------------- *)

MaxStemLen == 4

MaxRawLen == 5

MaxRuns == 2

(* --------------------------- str primitives --------------------------- *)

RECURSIVE ConcatRange(_, _, _)
ConcatRange(ss, lo, hi) ==
    IF lo > hi THEN <<>>
    ELSE IF lo = hi THEN ss[lo]
    ELSE LET mid == (lo + hi) \div 2
         IN ConcatRange(ss, lo, mid) \o ConcatRange(ss, mid + 1, hi)

\* "".join(ss)
Concat(ss) == ConcatRange(ss, 1, Len(ss))

\* sep.join(ss)
Join(sep, ss) ==
    Concat([i \in 1..Len(ss) |-> IF i = 1 THEN ss[i] ELSE sep \o ss[i]])

RECURSIVE Split(_, _)
Split(s, sep) ==
    IF \A i \in 1..Len(s) : s[i] # sep THEN <<s>>
    ELSE LET k == CHOOSE i \in 1..Len(s) :
                      s[i] = sep /\ \A j \in 1..(i - 1) : s[j] # sep
         IN <<SubSeq(s, 1, k - 1)>> \o Split(SubSeq(s, k + 1, Len(s)), sep)

IsSpace(c) == c \in {" ", "\n"}

RECURSIVE LStrip(_)
LStrip(s) == IF s # <<>> /\ IsSpace(Head(s)) THEN LStrip(Tail(s)) ELSE s

RECURSIVE RStrip(_)
RStrip(s) ==
    IF s # <<>> /\ IsSpace(s[Len(s)]) THEN RStrip(SubSeq(s, 1, Len(s) - 1))
    ELSE s

Strip(s) == RStrip(LStrip(s))

\* s.replace(old, new), old being one atom
Replace(s, old, new) ==
    Concat([i \in 1..Len(s) |-> IF s[i] = old THEN new ELSE <<s[i]>>])

Upper(c) ==
    CASE c = "a" -> "A"
      [] c = "b" -> "B"
      [] c = "p" -> "P"
      [] c = "q" -> "Q"
      [] OTHER -> c

Lower(c) ==
    CASE c = "A" -> "a"
      [] c = "B" -> "b"
      [] c = "P" -> "p"
      [] c = "Q" -> "q"
      [] OTHER -> c

\* faulty variant: the rest of the segment is not lower-cased
CapitalizeUpperOnly(s) ==
    IF s = <<>> THEN <<>> ELSE <<Upper(Head(s))>> \o Tail(s)

\* str.capitalize
Capitalize(s) ==
    IF s = <<>> THEN <<>>
    ELSE <<Upper(Head(s))>> \o [i \in 1..(Len(s) - 1) |-> Lower(s[i + 1])]

(* ------------------------------- Namer -------------------------------- *)

NameClass(name_file) ==
    LET parts == Split(name_file, "_")
    IN Concat([i \in 1..Len(parts) |-> Capitalize(parts[i])])

(* --------------------------- pydash.get ------------------------------- *)

\* get(list, index): the element, or None when the index is out of range
GetIndex(list, index) ==
    IF index + 1 <= Len(list) THEN <<list[index + 1]>> ELSE <<>>

(* ------------------ dict (insertion-ordered mapping) ------------------ *)

DictHas(d, k) == \E i \in 1..Len(d) : d[i].key = k

DictGet(d, k) == d[CHOOSE i \in 1..Len(d) : d[i].key = k].value

DictSet(d, k, v) ==
    IF DictHas(d, k)
    THEN [i \in 1..Len(d) |-> IF d[i].key = k THEN [key |-> k, value |-> v]
                                               ELSE d[i]]
    ELSE Append(d, [key |-> k, value |-> v])

(* --------------------------- ParameterParser -------------------------- *)

_set_tab(nb_tab, spaces_by_tab) == [i \in 1..(spaces_by_tab * nb_tab) |-> " "]

Tab(nb_tab) == _set_tab(nb_tab, 4)

\* one iteration of the loop of _get_methods_dictionary; raises when
\* get(param_split_name_type, 1) is None (None has no split)
ParseParam(param) ==
    LET param_split_name_type == Split(param, ":")
        second == GetIndex(param_split_name_type, 1)
    IN IF second = <<>> THEN [raises |-> TRUE]
       ELSE LET param_split_type_default_value == Split(second[1], "=")
                param_name == Strip(param_split_name_type[1])
                param_type == Strip(param_split_type_default_value[1])
                got == GetIndex(param_split_type_default_value, 1)
                param_default_value ==
                    IF got # <<>> /\ got[1] # <<>> THEN <<Strip(got[1])>>
                    ELSE got
            IN [raises |-> FALSE, name |-> param_name,
                value |-> <<param_type, param_default_value>>]

RECURSIVE ParseLoop(_, _)
ParseLoop(params, method_params) ==
    IF method_params = <<>> THEN [raises |-> FALSE, value |-> params]
    ELSE LET p == ParseParam(Head(method_params))
         IN IF p.raises THEN [raises |-> TRUE]
            ELSE ParseLoop(DictSet(params, p.name, p.value),
                           Tail(method_params))

_get_methods_dictionary(method_params) == ParseLoop(<<>>, method_params)

\* get(params, "return.0", "None")
GetReturnType(params) ==
    IF DictHas(params, <<"return">>) THEN DictGet(params, <<"return">>)[1]
    ELSE <<"None">>

AllButLast(list) == SubSeq(list, 1, Len(list) - 1)

SelectNotReturn(params) == SelectSeq(params, LAMBDA e : e.key # <<"return">>)

ParamsDocstring(params, msg_desc) ==
    LET kept == SelectNotReturn(params)
    IN Join(<<"\n">> \o Tab(3),
            [i \in 1..Len(kept) |->
                kept[i].key \o <<" (">> \o kept[i].value[1] \o <<"): ">>
                \o msg_desc])

_get_methods_strings(method_params) ==
    LET msg_desc == <<"Explain this...">>
        parsed == _get_methods_dictionary(method_params)
    IN IF parsed.raises THEN [raises |-> TRUE]
       ELSE LET params == parsed.value
                return_type == GetReturnType(params)
                returns_string ==
                    IF return_type # <<"None">>
                    THEN <<"\n", "\n">> \o Tab(2) \o <<"Returns:", "\n">>
                         \o Tab(3) \o return_type \o <<": ">> \o msg_desc
                    ELSE <<>>
                params_docstring == ParamsDocstring(params, msg_desc)
                head == AllButLast(method_params)
                method_params_list ==
                    Join(<<",", "\n">> \o Tab(2),
                         [i \in 1..Len(head) |-> Strip(head[i])])
            IN [raises |-> FALSE,
                method_params_list |-> method_params_list,
                return_type |-> return_type,
                params_docstring |-> params_docstring,
                returns_string |-> returns_string]

(* ----------------------------- TemplateStore -------------------------- *)

PATH_GEN_FILES == <<"./gen_files">>

TemplateClass ==
    <<"class ", "{class_name}", ":", "\n",
      "def __init__(self", "{attributes_params}", "):", "\n",
      "{attributes_docstring}", "\n", "{attributes_init}", "\n">>

TemplateAccessors ==
    <<"@property ", "{attribute_name}", " -> ", "{attribute_type}", "\n",
      "@setter ", "{attribute_name}", ": ", "{attribute_type}", "\n">>

TemplateMethods ==
    <<"def ", "{method_name}", "(self, ", "{method_params}", ") -> ",
      "{return_type}", ":", "\n", "Args:", "{params_docstring}",
      "{returns_string}", "\n">>

TemplateMethodsTests ==
    <<"def test_", "{method_name}", "(self):", "\n",
      "from ", "{class_file}", " import ", "{class_name}", "\n",
      "# ", "{params}", "\n">>

TemplateTests ==
    <<"from ", "{file_name}", " import ", "{class_name}", "\n",
      "class Test", "{class_name}", ":", "\n", "{methods_for_tests}">>

(* ------------------------------ ClassRenderer ------------------------- *)

_get_accessors(attribute_name, attribute_type) ==
    Replace(Replace(TemplateAccessors, "{attribute_name}", attribute_name),
            "{attribute_type}", attribute_type)

_get_attributes_strings(obj) ==
    LET desc_attr == <<"Explain this attr...">>
        attrs == obj.attributes
    IN [attributes_docstring |->
            Join(<<"\n">>,
                 [i \in 1..Len(attrs) |->
                     Tab(3) \o attrs[i].key \o <<" (">> \o attrs[i].value
                     \o <<"): ">> \o desc_attr]),
        attributes_params |->
            Concat([i \in 1..Len(attrs) |->
                     <<",", "\n">> \o Tab(2) \o attrs[i].key \o <<": ">>
                     \o attrs[i].value]),
        attributes_init |->
            Join(<<"\n">>,
                 [i \in 1..Len(attrs) |->
                     Tab(2) \o <<"self._">> \o attrs[i].key \o <<": ">>
                     \o attrs[i].value \o <<" = ">> \o attrs[i].key])]

\* faulty variant: {attributes_init} is not replaced
_get_class_no_init(obj) ==
    LET strs == _get_attributes_strings(obj)
    IN Replace(Replace(Replace(TemplateClass,
                   "{class_name}", obj.name_class),
               "{attributes_params}", strs.attributes_params),
           "{attributes_docstring}", strs.attributes_docstring)

_get_class(obj) ==
    LET strs == _get_attributes_strings(obj)
    IN Replace(Replace(Replace(Replace(TemplateClass,
                   "{class_name}", obj.name_class),
               "{attributes_params}", strs.attributes_params),
           "{attributes_docstring}", strs.attributes_docstring),
       "{attributes_init}", strs.attributes_init)

_get_method(method_name, method_params) ==
    LET strs == _get_methods_strings(method_params)
    IN IF strs.raises THEN [raises |-> TRUE]
       ELSE [raises |-> FALSE,
             value |->
                 Replace(Replace(Replace(Replace(Replace(TemplateMethods,
                                 "{method_name}", method_name),
                             "{method_params}", strs.method_params_list),
                         "{return_type}", strs.return_type),
                     "{params_docstring}", strs.params_docstring),
                 "{returns_string}", strs.returns_string)]

(* ------------------------------ TestRenderer -------------------------- *)

TestParams(method_params) ==
    LET head == AllButLast(Split(method_params, ","))
    IN Join(<<",", "\n">> \o Tab(2) \o <<"#">> \o Tab(1),
            [i \in 1..Len(head) |-> Split(head[i], ":")[1]])

_get_method_tests(obj, method_name, method_params) ==
    Replace(Replace(Replace(Replace(TemplateMethodsTests,
                    "{method_name}", method_name),
                "{class_file}", obj.name_file),
            "{class_name}", obj.name_class),
        "{params}", TestParams(method_params))

_get_class_tests(obj, methods_for_tests) ==
    Replace(Replace(Replace(TemplateTests,
                "{class_name}", obj.name_class),
            "{methods_for_tests}", methods_for_tests),
        "{file_name}", obj.name_file)

(* ------------------------------ OutputWriter -------------------------- *)

\* the file system: path -> content, for the files that exist
Exists(files, path) == path \in DOMAIN files

SetFile(files, path, text) ==
    [q \in DOMAIN files \cup {path} |-> IF q = path THEN text ELSE files[q]]

\* faulty variant: open(path, "a") keeps what the file holds
OpenA(files, path) ==
    IF Exists(files, path) THEN files ELSE SetFile(files, path, <<>>)

\* open(path, "w"): the file is created or truncated
OpenW(files, path) == SetFile(files, path, <<>>)

FileWrite(files, path, text) == SetFile(files, path, files[path] \o text)

_create_folder_and_init_file(files, path_folder) ==
    LET path == path_folder \o <<"/", "__init__.py">>
    IN FileWrite(OpenW(files, path), path, <<>>)

ClassPath(obj) == PATH_GEN_FILES \o <<"/">> \o obj.name_file \o <<".py">>

RECURSIVE WriteAccessors(_, _, _)
WriteAccessors(files, path, attrs) ==
    IF attrs = <<>> THEN files
    ELSE WriteAccessors(
             FileWrite(files, path,
                       _get_accessors(Head(attrs).key, Head(attrs).value)),
             path, Tail(attrs))

\* the loop over the lazily rendered method blocks: a block is rendered,
\* then written, then the next one is rendered; a raise leaves what was
\* written so far
RECURSIVE WriteMethods(_, _, _)
WriteMethods(files, path, meths) ==
    IF meths = <<>> THEN [raises |-> FALSE, files |-> files]
    ELSE LET m == _get_method(Head(meths).key, Split(Head(meths).value, ","))
         IN IF m.raises THEN [raises |-> TRUE, files |-> files]
            ELSE WriteMethods(FileWrite(files, path, m.value), path,
                              Tail(meths))

\* faulty variant: the method blocks are written before the accessors
_gen_class_methods_first(obj, files) ==
    LET path == ClassPath(obj)
        f1 == _create_folder_and_init_file(files, PATH_GEN_FILES)
        f2 == OpenW(f1, path)
        f3 == FileWrite(f2, path, _get_class(obj))
        r == WriteMethods(f3, path, obj.methods)
    IN IF r.raises THEN r
       ELSE [raises |-> FALSE,
             files |-> WriteAccessors(r.files, path, obj.attributes)]

_gen_class(obj, files) ==
    LET path == ClassPath(obj)
        f1 == _create_folder_and_init_file(files, PATH_GEN_FILES)
        f2 == OpenW(f1, path)
        f3 == FileWrite(f2, path, _get_class(obj))
        f4 == WriteAccessors(f3, path, obj.attributes)
    IN WriteMethods(f4, path, obj.methods)

TestsPath(obj) ==
    PATH_GEN_FILES \o <<"/", "tests_unittest", "/", "test_">> \o obj.name_file
    \o <<".py">>

_gen_unit_tests(obj, files) ==
    LET path_tests == PATH_GEN_FILES \o <<"/", "tests_unittest">>
        path_assets == path_tests \o <<"/", "assets">>
        path_file_class_tests == TestsPath(obj)
        f1 == _create_folder_and_init_file(files, path_tests)
        f2 == _create_folder_and_init_file(f1, path_assets)
        f3 == OpenW(f2, path_file_class_tests)
        result_methods ==
            Concat([i \in 1..Len(obj.methods) |->
                      _get_method_tests(obj, obj.methods[i].key,
                                        obj.methods[i].value)])
    IN FileWrite(f3, path_file_class_tests,
                 _get_class_tests(obj, result_methods))

\* the fields __init__ sets
NewGenClass(name_file, attributes, methods, inherit) ==
    [name_file |-> name_file,
     attributes |-> attributes,
     methods |-> methods,
     inherit |-> IF inherit # <<>> THEN <<"(">> \o inherit \o <<"):">>
                 ELSE <<":">>,
     name_class |-> NameClass(name_file)]

(* ------------------------- bounded input sets ------------------------- *)

SeqsUpTo(S, n) == UNION {[1..k -> S] : k \in 0..n}

StemChars == {"a", "B", "_", "3"}

Stems == SeqsUpTo(StemChars, MaxStemLen)

ParamChars == {"a", "return", "None", ":", "=", ",", " "}

RawLists == SeqsUpTo(ParamChars, MaxRawLen)

\* the dicts (sequences of entries with distinct keys) made of Entries
DictsOf(Entries) ==
    {d \in SeqsUpTo(Entries, Cardinality({e.key : e \in Entries})) :
        \A i, j \in 1..Len(d) : d[i].key = d[j].key => i = j}

PipelineStems == {<<"p", "_", "q">>}

AttributeEntries ==
    {[key |-> <<"x">>, value |-> <<"int">>],
     [key |-> <<"y">>, value |-> <<"str">>]}

\* method m with a parameter and a return type or with a token without ":",
\* method n without parameters returning None or with an empty list
MethodEntries ==
    {[key |-> <<"m">>,
      value |-> <<"a", ":", "int", ",", "return", ":", "int">>],
     [key |-> <<"m">>, value |-> <<"a">>],
     [key |-> <<"n">>, value |-> <<"return", ":", "None">>],
     [key |-> <<"n">>, value |-> <<>>]}

Inherits == {<<>>, <<"Base">>}

AttributeDicts == DictsOf(AttributeEntries)

MethodDicts == DictsOf(MethodEntries)

\* what the output tree may hold before the first run
PriorFiles ==
    {<<>>} \cup
    {[q \in {ClassPath([name_file |-> n]) : n \in PipelineStems} \cup
            {TestsPath([name_file |-> n]) : n \in PipelineStems}
        |-> <<"junk">>]}

NoSelf == [name_file |-> <<>>, attributes |-> <<>>, methods |-> <<>>,
           inherit |-> <<>>, name_class |-> <<>>]

NoOut == [fn |-> "none"]

(* ------------------- specification of the Namer ----------------------- *)

InitNamer ==
    /\ arg \in Stems
    /\ out = NoOut
    /\ pc = "call"
    /\ self = NoSelf
    /\ fs = <<>>
    /\ raised = FALSE
    /\ runs = 0

DeriveClassName ==
    /\ pc = "call"
    /\ out' = [fn |-> "name_class", name_class |-> NameClass(arg)]
    /\ pc' = "returned"
    /\ UNCHANGED <<self, fs, raised, arg, runs>>

NextNamer == DeriveClassName

SpecNamer == InitNamer /\ [][NextNamer]_vars

(* ---------------- specification of the ParameterParser --------------- *)

SampleSelf == NewGenClass(<<"p", "_", "q">>, <<>>, <<>>, <<>>)

InitParser ==
    /\ arg \in RawLists
    /\ out = NoOut
    /\ pc = "call"
    /\ self = SampleSelf
    /\ fs = <<>>
    /\ raised = FALSE
    /\ runs = 0

CallGetMethodsDictionary ==
    /\ pc = "call"
    /\ out' = [fn |-> "_get_methods_dictionary",
               result |-> _get_methods_dictionary(Split(arg, ","))]
    /\ pc' = "returned"
    /\ UNCHANGED <<self, fs, raised, arg, runs>>

CallGetMethodsStrings ==
    /\ pc = "call"
    /\ out' = [fn |-> "_get_methods_strings",
               result |-> _get_methods_strings(Split(arg, ","))]
    /\ pc' = "returned"
    /\ UNCHANGED <<self, fs, raised, arg, runs>>

CallGetMethod ==
    /\ pc = "call"
    /\ out' = [fn |-> "_get_method",
               result |-> _get_method(<<"m">>, Split(arg, ","))]
    /\ pc' = "returned"
    /\ UNCHANGED <<self, fs, raised, arg, runs>>

CallGetMethodTests ==
    /\ pc = "call"
    /\ out' = [fn |-> "_get_method_tests",
               params |-> TestParams(arg),
               result |-> _get_method_tests(self, <<"m">>, arg)]
    /\ pc' = "returned"
    /\ UNCHANGED <<self, fs, raised, arg, runs>>

NextParser ==
    \/ CallGetMethodsDictionary
    \/ CallGetMethodsStrings
    \/ CallGetMethod
    \/ CallGetMethodTests

SpecParser == InitParser /\ [][NextParser]_vars

(* -------------------- specification of the pipeline ------------------- *)

Init ==
    /\ self = NoSelf
    /\ fs \in PriorFiles
    /\ raised = FALSE
    /\ pc = "start"
    /\ arg = <<>>
    /\ out = NoOut
    /\ runs = 0

\* GenClass(name_file, attributes, methods, inherit): __init__ sets the
\* fields, generates the class file and then the tests file; a raise in
\* _gen_class leaves __init__ before _gen_unit_tests
Construct(name_file, attributes, methods, inherit) ==
    /\ runs < MaxRuns
    /\ runs' = runs + 1
    /\ \E obj \in {NewGenClass(name_file, attributes, methods, inherit)} :
        \E r \in {_gen_class(obj, fs)} :
            /\ self' = obj
            /\ raised' = r.raises
            /\ fs' = IF r.raises THEN r.files
                     ELSE _gen_unit_tests(obj, r.files)
            /\ pc' = IF obj = self THEN "regenerated" ELSE "constructed"
            /\ UNCHANGED <<arg, out>>

Next ==
    \E name_file \in PipelineStems, attributes \in AttributeDicts,
       methods \in MethodDicts, inherit \in Inherits :
        Construct(name_file, attributes, methods, inherit)

Spec == Init /\ [][Next]_vars

(* ------------------------------- C1 ----------------------------------- *)

IsSegmentStart(s, i) == i = 1 \/ s[i - 1] = "_"

KeptPositions(s) == {i \in 1..Len(s) : s[i] # "_"}

KthKept(s, k) ==
    CHOOSE i \in KeptPositions(s) :
        Cardinality({j \in KeptPositions(s) : j <= i}) = k

MapKept(s, F(_, _)) ==
    [k \in 1..Cardinality(KeptPositions(s)) |-> F(s, KthKept(s, k))]

UpperFirstLowerRest(s, i) == IF IsSegmentStart(s, i) THEN Upper(s[i]) ELSE Lower(s[i])

UpperFirstKeepRest(s, i) == IF IsSegmentStart(s, i) THEN Upper(s[i]) ELSE s[i]

\* C1 (as amended): the derived class name is the stem with every "_"
\* removed, the first character of each "_"-delimited segment upper-cased
\* and every other character of the segment lower-cased; the empty stem
\* gives the empty name and empty segments contribute nothing.
C1_NameCapitalizesSegments ==
    pc = "returned" /\ out.fn = "name_class"
        => out.name_class = MapKept(arg, UpperFirstLowerRest)

\* C1 (as claimed): every character other than the first of a segment is
\* left unchanged.
C1_NameKeepsOtherCharacters ==
    pc = "returned" /\ out.fn = "name_class"
        => out.name_class = MapKept(arg, UpperFirstKeepRest)

C1_Witness ==
    /\ pc = "returned"
    /\ out.fn = "name_class"
    /\ arg = <<"a", "B", "_", "a">>
    /\ out.name_class = <<"A", "b", "A">>

(* ------------------------------- C2 ----------------------------------- *)

HasAtom(s, c) == \E i \in 1..Len(s) : s[i] = c

FirstIndex(s, c) == CHOOSE i \in 1..Len(s) : s[i] = c /\ ~HasAtom(SubSeq(s, 1, i - 1), c)

BeforeFirst(s, c) == IF HasAtom(s, c) THEN SubSeq(s, 1, FirstIndex(s, c) - 1) ELSE s

AfterFirst(s, c) == SubSeq(s, FirstIndex(s, c) + 1, Len(s))

FirstSplitName(token) == Strip(BeforeFirst(token, ":"))

FirstSplitType(token) == Strip(BeforeFirst(AfterFirst(token, ":"), "="))

FirstSplitDefault(token) ==
    LET rest == AfterFirst(token, ":")
    IN IF HasAtom(rest, "=") THEN <<Strip(AfterFirst(rest, "="))>> ELSE <<>>

Returned(fn) == pc = "returned" /\ out.fn = fn

\* C2: every token that contains a ":" is split at the first ":" into name
\* and rest and rest at the first "=" into type and default, all trimmed:
\* the mapping holds, under the token's name, the whole text between the
\* first ":" and the first following "=" as the type and the whole
\* remainder after that "=" as the default, absent exactly when there is
\* no "=" (a later token of the same name replaces the entry).
C2_SplitsAtFirstSeparators ==
    Returned("_get_methods_dictionary") /\ ~out.result.raises
        => LET tokens == Split(arg, ",")
           IN \A i \in 1..Len(tokens) :
                  (\A j \in (i + 1)..Len(tokens) :
                       FirstSplitName(tokens[j]) # FirstSplitName(tokens[i]))
                  => /\ DictHas(out.result.value, FirstSplitName(tokens[i]))
                     /\ DictGet(out.result.value, FirstSplitName(tokens[i]))
                            = <<FirstSplitType(tokens[i]),
                                FirstSplitDefault(tokens[i])>>

(* ------------------------------- C3 ----------------------------------- *)

LastToken(raw) == LET tokens == Split(raw, ",") IN tokens[Len(tokens)]

\* C3: the return type of a method is the type part of the final token of
\* its parameter list, whatever the name of that token, and the "Returns"
\* block is there exactly when that type is not the literal None.
C3_ReturnTypeIsFinalTokenType ==
    Returned("_get_methods_strings") /\ ~out.result.raises
        => /\ out.result.return_type = ParseParam(LastToken(arg)).value[1]
           /\ (out.result.returns_string # <<>>)
                  <=> (ParseParam(LastToken(arg)).value[1] # <<"None">>)

(* ------------------------------- C9 ----------------------------------- *)

DocstringLine(token) ==
    ParseParam(token).name \o <<" (">> \o ParseParam(token).value[1]
    \o <<"): ", "Explain this...">>

\* C9: the parameters documented in the docstring are the parameters of
\* the signature, in the same order: the tokens other than the final one,
\* whatever their names and also when names repeat.
C9_DocstringListsSignatureParams ==
    Returned("_get_methods_strings") /\ ~out.result.raises
        => LET head == AllButLast(Split(arg, ","))
           IN /\ out.result.method_params_list
                     = Join(<<",", "\n">> \o Tab(2),
                            [i \in 1..Len(head) |-> Strip(head[i])])
              /\ out.result.params_docstring
                     = Join(<<"\n">> \o Tab(3),
                            [i \in 1..Len(head) |-> DocstringLine(head[i])])

(* ------------------------------- C10 ---------------------------------- *)

\* C10: the names of the test stub are the names the parser derives from
\* the same list (trimmed), in order, the final token excluded.
C10_TestParamsAreParsedNames ==
    Returned("_get_method_tests")
    /\ ~_get_methods_dictionary(Split(arg, ",")).raises
        => LET head == AllButLast(Split(arg, ","))
           IN out.params
                  = Join(<<",", "\n">> \o Tab(2) \o <<"#">> \o Tab(1),
                         [i \in 1..Len(head) |-> ParseParam(head[i]).name])

(* ---------------------------- C4 .. C8 -------------------------------- *)

Generated == pc \in {"constructed", "regenerated"}

ClassFile == fs[ClassPath(self)]

BlockMarkers == {"class ", "@property ", "def "}

\* the positions of the block markers of a text, in order
MarkerPositions(text) ==
    SelectSeq([i \in 1..Len(text) |-> i], LAMBDA i : text[i] \in BlockMarkers)

StartsBlock(text, pos, marker, name) ==
    /\ text[pos] = marker
    /\ pos + Len(name) <= Len(text)
    /\ SubSeq(text, pos + 1, pos + Len(name)) = name

\* C4: after a run that succeeds the class file is the header, then one
\* accessor block per attribute in declaration order, then one method block
\* per method in declaration order, and nothing else starts a block.
C4_ClassFileOrder ==
    Generated /\ ~raised
        => LET text == ClassFile
               pos == MarkerPositions(text)
               na == Len(self.attributes)
               nm == Len(self.methods)
           IN /\ Len(pos) = 1 + na + nm
              /\ pos[1] = 1
              /\ StartsBlock(text, pos[1], "class ", self.name_class)
              /\ \A k \in 1..na :
                     StartsBlock(text, pos[1 + k], "@property ",
                                 self.attributes[k].key)
              /\ \A k \in 1..nm :
                     StartsBlock(text, pos[1 + na + k], "def ",
                                 self.methods[k].key)

C4_Witness ==
    /\ Generated
    /\ ~raised
    /\ Len(self.attributes) = 2
    /\ self.attributes[1].key = <<"y">>
    /\ Len(self.methods) = 2
    /\ self.methods[1].key = <<"n">>
    /\ Len(MarkerPositions(ClassFile)) = 5

MethodBlock(i) ==
    _get_method(self.methods[i].key, Split(self.methods[i].value, ","))

\* the class file holds the header, the accessors and the blocks of the
\* first k methods of the ClassSpec, and no more
HoldsPrefix(k) ==
    /\ \A i \in 1..k : ~MethodBlock(i).raises
    /\ ClassFile
           = _get_class(self)
             \o Concat([i \in 1..Len(self.attributes) |->
                          _get_accessors(self.attributes[i].key,
                                         self.attributes[i].value)])
             \o Concat([i \in 1..k |-> MethodBlock(i).value])

\* C5: after a run that failed on a token without ":" the class file does
\* not hold a mere prefix of the rendering of the failed ClassSpec.
C5_NoHalfWrittenClassFile ==
    Generated /\ raised
        => ~(/\ Exists(fs, ClassPath(self))
             /\ \E k \in 0..(Len(self.methods) - 1) : HoldsPrefix(k))

Placeholders ==
    {"{class_name}", "{attributes_params}", "{attributes_docstring}",
     "{attributes_init}", "{attribute_name}", "{attribute_type}",
     "{method_name}", "{method_params}", "{return_type}",
     "{params_docstring}", "{returns_string}", "{class_file}", "{params}",
     "{methods_for_tests}", "{file_name}"}

\* C6: no file of the output tree holds a placeholder of a template.
C6_NoPlaceholderLeft ==
    \A path \in DOMAIN fs :
        \A i \in 1..Len(fs[path]) : fs[path][i] \notin Placeholders

C6_Witness ==
    /\ Generated
    /\ ~raised
    /\ Len(self.attributes) = 2
    /\ Len(self.methods) = 2
    /\ Exists(fs, TestsPath(self))
    /\ Len(fs[TestsPath(self)]) > Len(TemplateTests)
    /\ Len(ClassFile) > Len(TemplateClass)

\* C7: running the pipeline again for the ClassSpec of the previous run
\* leaves every file of the output tree as that run left it.
\* Nothing of what a file held before a run is left in a file the run wrote.
C7_RegenerationIsIdempotent ==
    /\ [][self' = self => fs' = fs]_vars
    /\ [](Generated
             => /\ ~HasAtom(ClassFile, "junk")
                /\ ~raised => ~HasAtom(fs[TestsPath(self)], "junk"))

C7_Witness ==
    /\ pc = "regenerated"
    /\ ~raised
    /\ Len(self.methods) = 2
    /\ Len(self.attributes) = 2
    /\ Exists(fs, TestsPath(self))

\* C8: with a base class given the class file differs from the class file
\* of the same ClassSpec without a base class.
C8_ClassFileDependsOnInherit ==
    Generated /\ ~raised /\ self.inherit # <<":">>
        => ClassFile
               # _gen_class([self EXCEPT !.inherit = <<":">>],
                            fs).files[ClassPath(self)]

====
